---- MODULE Spec2Model ----
(***************************************************************************)
(* Model of test-file-types/example.py: the recursive function factorial   *)
(* and the class Calculator with its methods add and multiply.             *)
(*                                                                         *)
(* A caller (a thread) issues a call and the interpreter executes it one   *)
(* source line at a time.  factorial runs on the caller's own stack of     *)
(* activation frames, one frame per activation, each holding the local n,  *)
(* the line the activation is at, and the value its nested call returned.  *)
(* Python integers are unbounded, so no width is applied to the products.  *)
(***************************************************************************)
EXTENDS Integers, Sequences, FiniteSets

VARIABLES
    call,      \* call[t]: the call thread t has issued, [op, args]
    status,    \* status[t]: "idle" (nothing issued), "running", "done"
    stack,     \* stack[t]: the factorial activation frames of t, innermost last
    result,    \* result[t]: the value the call returned, meaningful when done
    entered,   \* entered[t]: the arguments factorial was entered with, in order
    prev       \* prev[t]: the caller's record of its previous completed call

vars == <<call, status, stack, result, entered, prev>>

----------------------------------------------------------------------------
(* Bounds of the model *)

\* Sequential caller: factorial arguments range over -NegN..MaxN
MaxN == 10
NegN == 3
\* Sequential caller: Calculator operands range over -MaxOperand..MaxOperand
MaxOperand == 3
\* Concurrent callers: number of threads and their (smaller) input ranges
\* (factorial arguments -ConcNegN..ConcMaxN, operands 0..ConcMaxOperand)
NumThreads == 2
ConcMaxN == 3
ConcNegN == 1
ConcMaxOperand == 1

----------------------------------------------------------------------------
(* The code, line by line *)

\* line 7: if n <= 1:
BaseCaseWhenBelowOne(n) == n < 1
BaseCaseWhenEqualOne(n) == n = 1
BaseCaseUpToTwo(n) == n <= 2
BaseCase(n) == n <= 1

\* line 8: return 1
BaseValue == 1

\* line 9: the argument of the nested call, factorial(n - 1)
RecArgSame(n) == n
RecArg(n) == n - 1

\* line 9: return n * <value of the nested call>
RecValueSum(n, v) == n + v
RecValue(n, v) == n * v

\* line 15: return a + b
addAsProduct(a, b) == a * b
addFirstTwice(a, b) == a + a
add(a, b) == a + b

\* line 18: return a * b
multiplyAsSum(a, b) == a + b
multiplyFirstSquared(a, b) == a * a
multiply(a, b) == a * b

----------------------------------------------------------------------------
(* Calls and frames *)

NoCall == [op |-> "none", args |-> <<>>]
NoRecord == [call |-> NoCall, result |-> 0]

FactorialCall(n) == [op |-> "factorial", args |-> <<n>>]
AddCall(a, b) == [op |-> "add", args |-> <<a, b>>]
MultiplyCall(a, b) == [op |-> "multiply", args |-> <<a, b>>]

\* The calls a caller may issue: factorial(n) for n in lo..hi, and
\* Calculator().add(a, b), Calculator().multiply(a, b) for a, b in olo..ohi
Calls(lo, hi, olo, ohi) ==
    {FactorialCall(n) : n \in lo..hi}
        \cup {AddCall(a, b) : a \in olo..ohi, b \in olo..ohi}
        \cup {MultiplyCall(a, b) : a \in olo..ohi, b \in olo..ohi}

\* A fresh activation of factorial(n), about to execute line 7
Frame(n) == [n |-> n, pc |-> "L7", val |-> 0]

Top(t) == stack[t][Len(stack[t])]

SetTop(t, f) == [stack EXCEPT ![t] = [@ EXCEPT ![Len(@)] = f]]

\* Where a call's return value goes: the caller's own result
DeliverToAll(t, v) == result' = [u \in DOMAIN result |-> v]
Deliver(t, v) == result' = [result EXCEPT ![t] = v]

----------------------------------------------------------------------------
(* Operations *)

Init(T) ==
    /\ call = [t \in T |-> NoCall]
    /\ status = [t \in T |-> "idle"]
    /\ stack = [t \in T |-> <<>>]
    /\ result = [t \in T |-> 0]
    /\ entered = [t \in T |-> <<>>]
    /\ prev = [t \in T |-> NoRecord]

\* Entering the called function: factorial gets its first frame (line 5);
\* the Calculator methods have a single line and need none.
Enter(t, c) ==
    /\ call' = [call EXCEPT ![t] = c]
    /\ status' = [status EXCEPT ![t] = "running"]
    /\ stack' = [stack EXCEPT ![t] =
                    IF c.op = "factorial" THEN <<Frame(c.args[1])>> ELSE <<>>]
    /\ entered' = [entered EXCEPT ![t] =
                    IF c.op = "factorial" THEN <<c.args[1]>> ELSE <<>>]
    /\ result' = [result EXCEPT ![t] = 0]

\* Thread t issues its first call
Call(t, c) ==
    /\ status[t] = "idle"
    /\ Enter(t, c)
    /\ UNCHANGED prev

\* Thread t has its result and issues another call, keeping the result
CallAgain(t, c) ==
    /\ status[t] = "done"
    /\ prev' = [prev EXCEPT ![t] = [call |-> call[t], result |-> result[t]]]
    /\ Enter(t, c)

\* An activation of factorial returns v: to the activation that called it,
\* which resumes in the middle of line 9, or to the caller of factorial
Return(t, v) ==
    IF Len(stack[t]) = 1
    THEN /\ stack' = [stack EXCEPT ![t] = <<>>]
         /\ status' = [status EXCEPT ![t] = "done"]
         /\ Deliver(t, v)
    ELSE /\ stack' = [stack EXCEPT ![t] =
                 LET s == SubSeq(@, 1, Len(@) - 1)
                 IN  [s EXCEPT ![Len(s)] = [@ EXCEPT !.pc = "L9r", !.val = v]]]
         /\ UNCHANGED <<status, result>>

\* line 7: if n <= 1:
FactTest(t) ==
    /\ status[t] = "running"
    /\ call[t].op = "factorial"
    /\ Top(t).pc = "L7"
    /\ stack' = SetTop(t, [Top(t) EXCEPT
                    !.pc = IF BaseCase(Top(t).n) THEN "L8" ELSE "L9"])
    /\ UNCHANGED <<call, status, result, entered, prev>>

\* line 8: return 1
FactBase(t) ==
    /\ status[t] = "running"
    /\ call[t].op = "factorial"
    /\ Top(t).pc = "L8"
    /\ Return(t, BaseValue)
    /\ UNCHANGED <<call, entered, prev>>

\* line 9, first half: call factorial(n - 1)
FactRecurse(t) ==
    /\ status[t] = "running"
    /\ call[t].op = "factorial"
    /\ Top(t).pc = "L9"
    /\ stack' = [stack EXCEPT ![t] =
                    Append([@ EXCEPT ![Len(@)] = [@ EXCEPT !.pc = "L9w"]],
                           Frame(RecArg(Top(t).n)))]
    /\ entered' = [entered EXCEPT ![t] = Append(@, RecArg(Top(t).n))]
    /\ UNCHANGED <<call, status, result, prev>>

\* line 9, second half: return n * (the value the nested call returned)
FactMultiply(t) ==
    /\ status[t] = "running"
    /\ call[t].op = "factorial"
    /\ Top(t).pc = "L9r"
    /\ Return(t, RecValue(Top(t).n, Top(t).val))
    /\ UNCHANGED <<call, entered, prev>>

\* Calculator.add, line 15
CalcAdd(t) ==
    /\ status[t] = "running"
    /\ call[t].op = "add"
    /\ Deliver(t, add(call[t].args[1], call[t].args[2]))
    /\ status' = [status EXCEPT ![t] = "done"]
    /\ UNCHANGED <<call, stack, entered, prev>>

\* Calculator.multiply, line 18
CalcMultiply(t) ==
    /\ status[t] = "running"
    /\ call[t].op = "multiply"
    /\ Deliver(t, multiply(call[t].args[1], call[t].args[2]))
    /\ status' = [status EXCEPT ![t] = "done"]
    /\ UNCHANGED <<call, stack, entered, prev>>

\* One step of the call thread t is executing
Step(t) ==
    \/ FactTest(t)
    \/ FactBase(t)
    \/ FactRecurse(t)
    \/ FactMultiply(t)
    \/ CalcAdd(t)
    \/ CalcMultiply(t)

----------------------------------------------------------------------------
(* Specifications *)

SeqThreads == {1}
SeqCalls == Calls(-NegN, MaxN, -MaxOperand, MaxOperand)
ConcThreads == 1..NumThreads
ConcCalls == Calls(-ConcNegN, ConcMaxN, 0, ConcMaxOperand)

\* One caller issuing calls one after the other
Next ==
    \/ \E c \in SeqCalls : Call(1, c)
    \/ \E c \in SeqCalls : CallAgain(1, c)
    \/ Step(1)

Spec == Init(SeqThreads) /\ [][Next]_vars

\* One caller issuing a single call; a call that has started keeps running
NextOnce ==
    \/ \E c \in SeqCalls : Call(1, c)
    \/ Step(1)

FairSpec == Init(SeqThreads) /\ [][NextOnce]_vars /\ WF_vars(Step(1))

\* NumThreads callers, each issuing one call, their steps interleaved
NextConc ==
    \E t \in ConcThreads :
        \/ \E c \in ConcCalls : Call(t, c)
        \/ Step(t)

SpecConc == Init(ConcThreads) /\ [][NextConc]_vars

----------------------------------------------------------------------------
(* Properties *)

AllThreads == DOMAIN status

Done(t) == status[t] = "done"
Running(t) == status[t] = "running"
IsFactorial(t) == call[t].op = "factorial"
Arg(t) == call[t].args[1]

\* The product of the integers of a finite set, 1 for the empty set
RECURSIVE SetProduct(_)
SetProduct(S) ==
    IF S = {} THEN 1
    ELSE LET x == CHOOSE y \in S : TRUE
         IN  x * SetProduct(S \ {x})

\* C1: for every n >= 0, factorial(n) returns the product of the integers
\* 1..n (1 for n = 0); factorial(0) = 1, factorial(1) = 1, factorial(5) = 120
\* and factorial(10) = 3628800.
C1_FactorialIsProduct ==
    \A t \in AllThreads :
        (Done(t) /\ IsFactorial(t) /\ Arg(t) >= 0) =>
            /\ result[t] = SetProduct(1..Arg(t))
            /\ Arg(t) = 0 => result[t] = 1
            /\ Arg(t) = 1 => result[t] = 1
            /\ Arg(t) = 5 => result[t] = 120
            /\ Arg(t) = 10 => result[t] = 3628800

C1_Witness ==
    /\ Done(1)
    /\ call[1] = FactorialCall(10)
    /\ result[1] = 3628800

\* C2: for every n <= 1 (0 and the negative n included), factorial(n) returns
\* 1 from the base case: the only activation is the outermost one, it goes
\* from line 7 to line 8 and never to line 9, and makes no recursive call.
C2_BaseCaseDirect ==
    \A t \in AllThreads :
        (IsFactorial(t) /\ Arg(t) <= 1) =>
            /\ entered[t] = <<Arg(t)>>
            /\ Len(stack[t]) <= 1
            /\ Running(t) => Top(t).pc \in {"L7", "L8"}
            /\ Done(t) => result[t] = 1

C2_Witness ==
    /\ Done(1)
    /\ call[1] = FactorialCall(1)
    /\ entered[1] = <<1>>
    /\ result[1] = 1

\* C3: for every n > 0, factorial(n) = n * factorial(n - 1), the boundary
\* n = 1 included: a caller that has the result of factorial(n - 1) and then
\* calls factorial(n) gets n times that result.
C3_Recurrence ==
    \A t \in AllThreads :
        (/\ Done(t) /\ IsFactorial(t) /\ Arg(t) > 0
         /\ prev[t].call = FactorialCall(Arg(t) - 1)) =>
            result[t] = Arg(t) * prev[t].result

C3_Witness ==
    /\ Done(1)
    /\ call[1] = FactorialCall(1)
    /\ prev[1] = [call |-> FactorialCall(0), result |-> 1]
    /\ result[1] = 1

\* C4 as stated: a call of factorial with a negative n never returns.
C4_NegativeNeverReturns ==
    \A t \in AllThreads :
        (IsFactorial(t) /\ Arg(t) < 0) => ~Done(t)

\* C4: a call of factorial with a negative n never enters an activation with
\* an argument other than n (it does not recurse toward more negative
\* values), and it returns, with the result 1.
C4_NegativeReturnsOne ==
    /\ [](\A t \in SeqThreads :
            (IsFactorial(t) /\ Arg(t) < 0) =>
                /\ \A i \in 1..Len(entered[t]) : entered[t][i] = Arg(t)
                /\ Len(stack[t]) <= 1
                /\ Done(t) => result[t] = 1)
    /\ \A t \in SeqThreads :
            (Running(t) /\ IsFactorial(t) /\ Arg(t) < 0)
                ~> (Done(t) /\ IsFactorial(t) /\ Arg(t) < 0 /\ result[t] = 1)

C4_Witness ==
    /\ Done(1)
    /\ call[1] = FactorialCall(-NegN)
    /\ entered[1] = <<-NegN>>
    /\ result[1] = 1

\* C5: Calculator.add(a, b) returns a + b; add(2, 3) = 5 and add(x, -x) = 0.
C5_AddIsSum ==
    \A t \in AllThreads :
        (Done(t) /\ call[t].op = "add") =>
            LET a == call[t].args[1]
                b == call[t].args[2]
            IN  /\ result[t] = a + b
                /\ (a = 2 /\ b = 3) => result[t] = 5
                /\ b = -a => result[t] = 0

C5_Witness ==
    /\ Done(1)
    /\ call[1] = AddCall(2, 3)
    /\ result[1] = 5

\* C6: Calculator.multiply(a, b) returns a * b; multiply(2, 3) = 6 and
\* multiply(0, b) = 0 for every b.
C6_MultiplyIsProduct ==
    \A t \in AllThreads :
        (Done(t) /\ call[t].op = "multiply") =>
            LET a == call[t].args[1]
                b == call[t].args[2]
            IN  /\ result[t] = a * b
                /\ (a = 2 /\ b = 3) => result[t] = 6
                /\ a = 0 => result[t] = 0

C6_Witness ==
    /\ Done(1)
    /\ call[1] = MultiplyCall(2, 3)
    /\ result[1] = 6

\* C7: Calculator.multiply is commutative: a caller that has the result of
\* multiply(b, a) and then calls multiply(a, b) gets the same result.
C7_MultiplyCommutes ==
    \A t \in AllThreads :
        (/\ Done(t) /\ call[t].op = "multiply"
         /\ prev[t].call = MultiplyCall(call[t].args[2], call[t].args[1])) =>
            result[t] = prev[t].result

C7_Witness ==
    /\ Done(1)
    /\ call[1] = MultiplyCall(2, 3)
    /\ prev[1] = [call |-> MultiplyCall(3, 2), result |-> 6]
    /\ result[1] = 6

\* C8: zero is a right identity of Calculator.add: add(a, 0) returns a.
C8_AddZeroIdentity ==
    \A t \in AllThreads :
        (Done(t) /\ call[t].op = "add" /\ call[t].args[2] = 0) =>
            result[t] = call[t].args[1]

C8_Witness ==
    /\ Done(1)
    /\ call[1] = AddCall(-2, 0)
    /\ result[1] = -2

\* What a call returns when it is the only call running
RunAlone(c) ==
    CASE c.op = "factorial" -> SetProduct(1..c.args[1])
      [] c.op = "add" -> c.args[1] + c.args[2]
      [] c.op = "multiply" -> c.args[1] * c.args[2]

\* The part of the state that belongs to thread t
Own(t) == <<call[t], status[t], stack[t], result[t], entered[t], prev[t]>>

\* C9: with the calls of several threads interleaved in any order, every
\* step reads and writes the state of the stepping thread only (the state of
\* every other thread is left as it was), and every call returns what the
\* same call returns when run alone.
C9_ThreadsIndependent ==
    /\ [](\A t \in ConcThreads : Done(t) => result[t] = RunAlone(call[t]))
    /\ [][\E t \in ConcThreads :
            \A u \in ConcThreads \ {t} : Own(u)' = Own(u)]_vars

C9_Witness ==
    /\ Done(1)
    /\ call[1] = FactorialCall(3)
    /\ result[1] = 6
    /\ Running(2)
    /\ call[2] = FactorialCall(2)
    /\ Len(stack[2]) = 2

\* The arguments of the activations of factorial(n): n, n - 1, ..., 1 for
\* n >= 1, and n alone for n <= 1
Countdown(n) == [i \in 1..(IF n > 1 THEN n ELSE 1) |-> n - i + 1]

\* C10: factorial(n) returns for every n, negative, zero or positive, after
\* exactly max(n - 1, 0) nested calls, whose arguments are n - 1, n - 2, ...,
\* 1 in this order; no nested call gets an argument below 1.
C10_RecursionDepth ==
    /\ [](\A t \in SeqThreads :
            IsFactorial(t) =>
                /\ entered[t][1] = Arg(t)
                /\ \A i \in 2..Len(entered[t]) :
                        /\ entered[t][i] = entered[t][i - 1] - 1
                        /\ entered[t][i] >= 1
                /\ Done(t) =>
                        /\ entered[t] = Countdown(Arg(t))
                        /\ Len(entered[t]) - 1
                                = (IF Arg(t) - 1 > 0 THEN Arg(t) - 1 ELSE 0))
    /\ \A t \in SeqThreads :
            (Running(t) /\ IsFactorial(t)) ~> (Done(t) /\ IsFactorial(t))

C10_Witness ==
    /\ Done(1)
    /\ call[1] = FactorialCall(4)
    /\ entered[1] = <<4, 3, 2, 1>>
    /\ result[1] = 24

====
